---- MODULE Spec2Model ----
(***************************************************************************)
(* mcbootflash: host-side driver of the MCC 16-bit bootloader protocol.    *)
(* The model follows src/src/mcbootflash/connection.py (class Bootloader)  *)
(* and src/src/mcbootflash/protocol.py (packet layouts).  One action is    *)
(* one command/response exchange of a handler together with the handler's  *)
(* code up to its next exchange; the device's answer is the input of the   *)
(* action.                                                                 *)
(***************************************************************************)
EXTENDS Integers, Sequences, FiniteSets, TLC

(* ------------------------------ bounds -------------------------------- *)
\* program memory ranges reported by the device end at or below this word address
MaxWordAddr == 4
\* firmware images hold bytes at addresses 0..MaxImageAddr
MaxImageAddr == 5
\* erase_size reported by the device is 1 or MaxEraseSize
MaxEraseSize == 2
\* write_size reported by the device is 1 or MaxWriteSize
MaxWriteSize == 3
\* max_packet_length reported is CommandSize + 1 or CommandSize + MaxPacketRoom
MaxPacketRoom == 3
\* the transport's timeout at construction is None or MaxTimeout seconds; an
\* object is followed for as long as its timeout is no longer than that
MaxTimeout == 1
\* a byte the device may echo that is no command code
InvalidCode == 85

(* ------------------------- protocol constants ------------------------- *)
READ_VERSION == 0
READ_FLASH == 1
WRITE_FLASH == 2
ERASE_FLASH == 3
CALC_CHECKSUM == 8
RESET_DEVICE == 9
SELF_VERIFY == 10
GET_MEMORY_ADDRESS_RANGE == 11

CommandCode ==
    {READ_VERSION, READ_FLASH, WRITE_FLASH, ERASE_FLASH, CALC_CHECKSUM,
     RESET_DEVICE, SELF_VERIFY, GET_MEMORY_ADDRESS_RANGE}

UNDEFINED == 0
SUCCESS == 1
UNSUPPORTED_COMMAND == 255
BAD_ADDRESS == 254
BAD_LENGTH == 253
VERIFY_FAIL == 252

ResponseCode ==
    {UNDEFINED, SUCCESS, UNSUPPORTED_COMMAND, BAD_ADDRESS, BAD_LENGTH, VERIFY_FAIL}

FLASH_UNLOCK_KEY == 11141205  \* 0x00AA0055

\* struct.calcsize of the packet formats
CommandSize == 11      \* "=BH2I"
ResponseSize == 12     \* "=BH2I" + "B"
VersionSize == 37      \* "=BH2I" + "2H2xH2x2H12x"
MemoryRangeSize == 20  \* "=BH2I" + "B" + "2I"
ChecksumSize == 14     \* "=BH2I" + "B" + "H"

\* IntelHex.padding of an image or slice built with the default constructor
Padding == 255

\* interface.timeout = None, kept apart from every number of seconds
None == -1

(* ----------------------------- exceptions ----------------------------- *)
\* what an operation raised; NoError when it returned normally
NoError == "none"
UnsupportedCommand == "UnsupportedCommand"
BadAddress == "BadAddress"
BadLength == "BadLength"
VerifyFail == "VerifyFail"
\* BootloaderError raised with a fixed message, named by the condition
ProtocolMismatch == "BootloaderError: Command code mismatch"
ConnectionFailed == "BootloaderError: No response from bootloader"
EmptyImage == "BootloaderError: HEX file contains no data that fits entirely within program memory"
EraseVerificationFailed == "BootloaderError: Existing application could not be erased"
ChecksumMismatch == "BootloaderError: Checksum mismatch while writing"
\* exceptions of the Python runtime that are no BootloaderError
KeyError == "KeyError"
ValueError == "ValueError"
StructError == "struct.error"
DeviceErrors == {UnsupportedCommand, BadAddress, BadLength, VerifyFail}

\* the table with BAD_LENGTH raising the exception of BAD_ADDRESS
BOOTLOADER_EXCEPTIONS_MERGED ==
    (UNSUPPORTED_COMMAND :> UnsupportedCommand) @@ (BAD_ADDRESS :> BadAddress)
    @@ (BAD_LENGTH :> BadAddress) @@ (VERIFY_FAIL :> VerifyFail)

BOOTLOADER_EXCEPTIONS ==
    (UNSUPPORTED_COMMAND :> UnsupportedCommand) @@ (BAD_ADDRESS :> BadAddress)
    @@ (BAD_LENGTH :> BadLength) @@ (VERIFY_FAIL :> VerifyFail)

RESPONSE_TYPE_MAP ==
    (READ_VERSION :> "Version") @@ (READ_FLASH :> "Response")
    @@ (WRITE_FLASH :> "Response") @@ (ERASE_FLASH :> "Response")
    @@ (CALC_CHECKSUM :> "Checksum") @@ (RESET_DEVICE :> "Response")
    @@ (SELF_VERIFY :> "Response") @@ (GET_MEMORY_ADDRESS_RANGE :> "MemoryRange")

\* every packet type read with the size of the plain Response
get_size_of_response(type) == ResponseSize

get_size(type) ==
    CASE type = "Version" -> VersionSize
      [] type = "Response" -> ResponseSize
      [] type = "Checksum" -> ChecksumSize
      [] type = "MemoryRange" -> MemoryRangeSize

(* --------------------------- python helpers --------------------------- *)
Min(S) == CHOOSE x \in S : \A y \in S : x <= y
Max(S) == CHOOSE x \in S : \A y \in S : y <= x

\* len(range(a, b, step)) for step > 0
RangeLen(a, b, step) == IF b > a THEN (b - a + step - 1) \div step ELSE 0

(* ------------------------------ IntelHex ------------------------------ *)
\* An IntelHex object is its buffer: a function from byte addresses to bytes.
EmptyHex == [a \in {} |-> 0]
minaddr(ih) == Min(DOMAIN ih)
maxaddr(ih) == Max(DOMAIN ih)
HexLen(ih) == Cardinality(DOMAIN ih)

\* a slice that keeps every byte of the object
SliceUnbounded(ih, lo, hi) == ih

\* ih[lo:hi]
Slice(ih, lo, hi) == [a \in {x \in DOMAIN ih : lo <= x /\ x < hi} |-> ih[a]]

\* end (exclusive) of the contiguous run of S that starts at lo
RECURSIVE RunEnd(_, _)
RunEnd(S, lo) == IF lo \in S THEN RunEnd(S, lo + 1) ELSE lo

\* ih.segments(): the (start, stop) pairs of the maximal contiguous runs, ascending
RECURSIVE SegmentsOf(_)
SegmentsOf(S) ==
    IF S = {} THEN <<>>
    ELSE LET lo == Min(S)
             hi == RunEnd(S, lo)
         IN <<<<lo, hi>>>> \o SegmentsOf({x \in S : x >= hi})

HexSegments(ih) == SegmentsOf(DOMAIN ih)

\* ih.tobinstr() of a contiguous object: its bytes in address order
tobinstr(ih) ==
    IF DOMAIN ih = {} THEN <<>>
    ELSE [k \in 1..(maxaddr(ih) - minaddr(ih) + 1) |->
            IF (minaddr(ih) + k - 1) \in DOMAIN ih
            THEN ih[minaddr(ih) + k - 1] ELSE Padding]

(* -------------------------- Bootloader._chunk ------------------------- *)
\* _chunk yielding the slices from the highest address down
ChunkDescending(hexdata, size) ==
    LET start == minaddr(hexdata)
        stop == maxaddr(hexdata)
        count == RangeLen(start, stop, size)
    IN [k \in 1..count |->
            Slice(hexdata, start + (count - k) * size, start + (count - k + 1) * size)]

\* (hexdata[i : i + size] for i in range(start, stop, size)), size > 0
Chunk(hexdata, size) ==
    LET start == minaddr(hexdata)
        stop == maxaddr(hexdata)
    IN [k \in 1..RangeLen(start, stop, size) |->
            Slice(hexdata, start + (k - 1) * size, start + k * size)]

(* --------------------- Bootloader._get_local_checksum ----------------- *)
\* int.from_bytes(bs, byteorder="little")
RECURSIVE FromBytesLittle(_)
FromBytesLittle(bs) ==
    IF bs = <<>> THEN 0 ELSE Head(bs) + 256 * FromBytesLittle(Tail(bs))

RECURSIVE ChecksumFrom(_, _, _)
ChecksumFrom(data, i, stop) ==
    IF i >= stop THEN 0
    ELSE LET databytes == tobinstr(Slice(data, i, i + 4))
             \* & 0xFFFF and (>> 16) & 0xFF keep bits 0..23 of the word: its
             \* fourth byte is in neither term
             word == FromBytesLittle(SubSeq(databytes, 1, Min({3, Len(databytes)})))
         IN (word % 65536) + ((word \div 65536) % 256) + ChecksumFrom(data, i + 4, stop)

get_local_checksum(data) ==
    ChecksumFrom(data, minaddr(data), minaddr(data) + HexLen(data)) % 65536

(* ------------------------------- state -------------------------------- *)
VARIABLES
    pc,                 \* position of the running handler: "new" before __init__, "done" when it
                        \* returned or raised, "idle" between operations, "failed" when __init__ raised
    op,                 \* the public operation running or last run
    error,              \* what the last operation raised (NoError while running / on normal return)
    interface_timeout,  \* self.interface.timeout
    max_packet_length,  \* self._max_packet_length
    erase_size,         \* self._erase_size
    write_size,         \* self._write_size
    memory_range,       \* self._memory_range: <<a, b>> is range(a, b)
    erase_range,        \* erase_flash: the range erased (argument or self._memory_range)
    force,              \* erase_flash argument
    verify,             \* erase_flash argument
    start,              \* erase_flash local
    end,                \* erase_flash local
    normal_timeout,     \* _erase_flash local
    hexfile,            \* flash: the content of the HEX file
    progress_callback,  \* flash argument: TRUE when a callback is provided
    segments,           \* flash local
    seg,                \* flash: index in segments of the segment being written
    chunks,             \* flash local: the chunks of the current segment not yet taken
    chunk,              \* flash loop variable
    chunk_size,         \* flash local
    total_bytes,        \* flash local
    written_bytes,      \* flash local
    trace               \* this operation's transport exchanges and callback calls, in order

devVars == <<max_packet_length, erase_size, write_size, memory_range>>
eraseVars == <<erase_range, force, verify, start, end>>
flashVars == <<hexfile, progress_callback, segments, seg, chunks, chunk,
               chunk_size, total_bytes, written_bytes>>
vars == <<pc, op, error, interface_timeout, devVars, eraseVars,
          normal_timeout, flashVars, trace>>

(* --------------------------- the transport ---------------------------- *)
\* What the device may answer to a command: a read shorter than the packet
\* (timeout), or a full packet whose fields hold any of these values.
EchoOf(command) == {command, READ_FLASH, InvalidCode}

\* sums: the values the checksum field of a Checksum packet may hold ({0} for the
\* packet types without the field); a Version packet has no success field.
\* A packet with the right echo holds every success code; the packets that
\* say SUCCESS or BAD_LENGTH are tried with every checksum, the others with
\* the least one.  A packet with a wrong echo is tried with the code of
\* another command and SUCCESS, and with a byte that is no command code and
\* a device error code.
Responses(command, sums) ==
    LET codes == IF RESPONSE_TYPE_MAP[command] = "Version" THEN {UNDEFINED} ELSE ResponseCode
    IN {r \in [short : {FALSE}, command : {command}, success : codes, checksum : sums] :
           r.success \in {SUCCESS, BAD_LENGTH} \/ r.checksum = Min(sums)}
       \cup {r \in [short : {FALSE}, command : EchoOf(command) \ {command},
                     success : IF codes = {UNDEFINED} THEN codes ELSE {SUCCESS, BAD_ADDRESS},
                     checksum : {Min(sums)}] :
                 codes # {UNDEFINED} =>
                     ((r.command = InvalidCode) <=> (r.success = BAD_ADDRESS))}
       \cup {[short |-> TRUE, command |-> command, success |-> UNDEFINED, checksum |-> 0]}

\* _verify_good_response raising for the codes of the table only
VerifyGoodResponseKnownCodes(command, response) ==
    IF response.short THEN StructError
    ELSE IF response.command # command
         THEN (IF response.command \in CommandCode THEN ProtocolMismatch ELSE ValueError)
    ELSE IF RESPONSE_TYPE_MAP[command] = "Version" THEN NoError
    ELSE IF response.success \in DOMAIN BOOTLOADER_EXCEPTIONS
         THEN BOOTLOADER_EXCEPTIONS[response.success]
    ELSE NoError

\* Bootloader._verify_good_response after Packet.from_serial: what the exchange raises
VerifyGoodResponse(command, response) ==
    IF response.short THEN StructError
    ELSE IF response.command # command
         THEN (IF response.command \in CommandCode THEN ProtocolMismatch ELSE ValueError)
    ELSE IF RESPONSE_TYPE_MAP[command] = "Version" THEN NoError
    ELSE IF response.success # SUCCESS
         THEN (IF response.success \in DOMAIN BOOTLOADER_EXCEPTIONS
               THEN BOOTLOADER_EXCEPTIONS[response.success] ELSE KeyError)
    ELSE NoError

\* a Command that carries the unlock key whatever it is given
CommandAlwaysUnlocked(command, data_length, unlock_sequence, address) ==
    [command |-> command, data_length |-> data_length,
     unlock_sequence |-> FLASH_UNLOCK_KEY, address |-> address]

\* Command(command, data_length, unlock_sequence, address) with dataclass defaults
Command(command, data_length, unlock_sequence, address) ==
    [command |-> command, data_length |-> data_length,
     unlock_sequence |-> unlock_sequence, address |-> address]

\* Bootloader._send_and_receive: the record of one exchange on the transport
\* (what was written, how many bytes were asked back under which timeout,
\* what came back and what the exchange raised).  caller is the method of
\* Bootloader the exchange is made for, at the byte address of the IntelHex
\* object the command is about and n its length (-1, 0 when none).
SendAndReceive(caller, command, data, response, at, n) ==
    [kind |-> "exchange",
     caller |-> caller,
     command |-> command.command,
     data_length |-> command.data_length,
     unlock_sequence |-> command.unlock_sequence,
     address |-> command.address,
     data |-> data,
     read_size |-> get_size(RESPONSE_TYPE_MAP[command.command]),
     timeout |-> interface_timeout,
     response |-> response,
     raised |-> VerifyGoodResponse(command.command, response),
     at |-> at, n |-> n,
     written |-> 0, total |-> 0]

\* progress_callback(written_bytes, total_bytes)
CallbackCall(written, total) ==
    [kind |-> "callback", caller |-> "flash", command |-> -1, data_length |-> 0, unlock_sequence |-> 0,
     address |-> 0, data |-> <<>>, read_size |-> 0, timeout |-> None,
     response |-> [short |-> FALSE, command |-> -1, success |-> UNDEFINED, checksum |-> 0],
     raised |-> NoError, at |-> -1, n |-> 0,
     written |-> written, total |-> total]

(* ---------------------------- input sets ------------------------------ *)
\* the device reports a range of at least two words (range(a, b) with
\* b >= a + 2): one that starts at word 0, or the one from word 1 to the bound
WordRanges ==
    {r \in (0..1) \X (0..MaxWordAddr) :
        r[2] >= r[1] + 2 /\ (r[1] = 1 => r[2] = MaxWordAddr)}
Timeouts == {None, MaxTimeout}
\* the attributes a device reports in its Version packet: each of the three
\* takes its least value or its bound, in combinations that hold every pair
\* of values of two attributes
Versions ==
    {v \in [max_packet_length : {CommandSize + 1, CommandSize + MaxPacketRoom},
            erase_size : {1, MaxEraseSize},
            write_size : {1, MaxWriteSize}] :
        (v.erase_size = 1) <=>
            ((v.max_packet_length = CommandSize + 1) <=> (v.write_size = 1))}
\* the byte a firmware image holds at address a
ImageByte(a) == (a * 37 + 11) % 256
Images == {[a \in S |-> ImageByte(a)] : S \in SUBSET (0..MaxImageAddr)}

(* -------------------------------- Init -------------------------------- *)
Init ==
    /\ pc = "new"
    /\ op = "__init__"
    /\ error = NoError
    /\ interface_timeout \in Timeouts
    /\ max_packet_length = 0
    /\ erase_size = 0
    /\ write_size = 0
    /\ memory_range = <<0, 0>>
    /\ erase_range = <<0, 0>>
    /\ force = FALSE
    /\ verify = FALSE
    /\ start = 0
    /\ end = 0
    /\ normal_timeout = None
    /\ hexfile = EmptyHex
    /\ progress_callback = FALSE
    /\ segments = <<>>
    /\ seg = 0
    /\ chunks = <<>>
    /\ chunk = EmptyHex
    /\ chunk_size = 0
    /\ total_bytes = 0
    /\ written_bytes = 0
    /\ trace = <<>>

\* an exception leaves the handler: the operation is over
Raise(e) ==
    /\ pc' = IF op = "__init__" THEN "failed" ELSE "done"
    /\ error' = e

(* ------------------------ Bootloader.__init__ ------------------------- *)
\* _read_version(): READ_VERSION exchange, attributes captured from the answer
ReadVersion ==
    /\ pc = "new"
    /\ \E response \in Responses(READ_VERSION, {0}),
          v \in Versions :
          LET x == SendAndReceive("_read_version", Command(READ_VERSION, 0, 0, 0), <<>>, response, -1, 0)
          IN /\ trace' = Append(trace, x)
             /\ IF x.raised = NoError
                THEN /\ max_packet_length' = v.max_packet_length
                     /\ erase_size' = v.erase_size
                     /\ write_size' = v.write_size
                     /\ pc' = "get_memory_address_range"
                     /\ error' = error
                ELSE /\ UNCHANGED <<max_packet_length, erase_size, write_size>>
                     /\ Raise(IF x.raised = StructError THEN ConnectionFailed ELSE x.raised)
    /\ UNCHANGED <<op, interface_timeout, memory_range, eraseVars,
                   normal_timeout, flashVars>>

\* _get_memory_address_range(): GET_MEMORY_ADDRESS_RANGE exchange
GetMemoryAddressRange ==
    /\ pc = "get_memory_address_range"
    /\ \E response \in Responses(GET_MEMORY_ADDRESS_RANGE, {0}), r \in WordRanges :
          LET x == SendAndReceive("_get_memory_address_range",
                                  Command(GET_MEMORY_ADDRESS_RANGE, 0, 0, 0), <<>>,
                                  response, -1, 0)
          IN /\ trace' = Append(trace, x)
             /\ IF x.raised = NoError
                THEN /\ memory_range' = r
                     /\ pc' = "done"
                     /\ error' = error
                ELSE /\ UNCHANGED memory_range
                     /\ Raise(IF x.raised = StructError THEN ConnectionFailed ELSE x.raised)
    /\ UNCHANGED <<op, interface_timeout, max_packet_length, erase_size,
                   write_size, eraseVars, normal_timeout, flashVars>>

(* ----------------------- calls and locals ----------------------------- *)
\* a public method is called on the connected object
Call(name) ==
    /\ pc = "idle"
    /\ interface_timeout <= MaxTimeout
    /\ op' = name

NoEraseLocals ==
    /\ erase_range' = <<0, 0>>
    /\ force' = FALSE
    /\ verify' = FALSE
    /\ start' = 0
    /\ end' = 0
    /\ normal_timeout' = None

NoFlashLocals ==
    /\ hexfile' = EmptyHex
    /\ progress_callback' = FALSE
    /\ segments' = <<>>
    /\ seg' = 0
    /\ chunks' = <<>>
    /\ chunk' = EmptyHex
    /\ chunk_size' = 0
    /\ total_bytes' = 0
    /\ written_bytes' = 0

\* the operation returns or raises to its caller: its frame (locals, and the
\* record of its exchanges) is gone, the object and the transport remain
Return ==
    /\ pc = "done"
    /\ pc' = "idle"
    /\ op' = "none"
    /\ error' = NoError
    /\ trace' = <<>>
    /\ NoEraseLocals
    /\ NoFlashLocals
    /\ UNCHANGED <<interface_timeout, devVars>>

(* -------------------------- Bootloader.reset -------------------------- *)
Reset ==
    /\ Call("reset")
    /\ \E response \in Responses(RESET_DEVICE, {0}) :
          LET x == SendAndReceive("reset", Command(RESET_DEVICE, 0, 0, 0), <<>>, response, -1, 0)
          IN /\ trace' = <<x>>
             /\ error' = x.raised
    /\ pc' = "done"
    /\ NoEraseLocals
    /\ NoFlashLocals
    /\ UNCHANGED <<interface_timeout, devVars>>

(* ---------------------- Bootloader._detect_program -------------------- *)
\* _detect_program with an except clause that catches every exception
detect_program_except_all(x) ==
    IF x.raised = NoError THEN "True" ELSE "False"

\* _detect_program returning False after a good self-verify and True after VerifyFail
detect_program_inverted(x) ==
    IF x.raised = NoError THEN "False"
    ELSE IF x.raised = VerifyFail THEN "True"
    ELSE "raise"

\* _detect_program with an except clause that catches every error the device reports
detect_program_except_device_errors(x) ==
    IF x.raised = NoError THEN "True"
    ELSE IF x.raised \in DeviceErrors THEN "False"
    ELSE "raise"

\* what _detect_program makes of its SELF_VERIFY exchange x: "True" when it
\* succeeded, "False" when it raised VerifyFail, "raise" when anything else
\* was raised (the except clause names VerifyFail only)
detect_program(x) ==
    IF x.raised = NoError THEN "True"
    ELSE IF x.raised = VerifyFail THEN "False"
    ELSE "raise"

(* -------------------------- Bootloader.flash -------------------------- *)
\* the loops of flash left after the first segment that has no chunk left
NextChunkFirstSegmentOnly(segs, s, rem, size) ==
    IF rem # <<>>
    THEN [pc |-> "write_flash", seg |-> s, chunk |-> Head(rem), chunks |-> Tail(rem)]
    ELSE IF s = 0 /\ Chunk(segs[1], size) # <<>>
    THEN [pc |-> "write_flash", seg |-> 1, chunk |-> Head(Chunk(segs[1], size)),
          chunks |-> Tail(Chunk(segs[1], size))]
    ELSE [pc |-> "self_verify", seg |-> s, chunk |-> EmptyHex, chunks |-> <<>>]

\* the for loops of flash: the next chunk to write, from segment s on, rem
\* being the chunks of segment s not yet taken; the final self-verify when
\* no chunk is left
RECURSIVE NextChunk(_, _, _, _)
NextChunk(segs, s, rem, size) ==
    IF rem # <<>>
    THEN [pc |-> "write_flash", seg |-> s, chunk |-> Head(rem), chunks |-> Tail(rem)]
    ELSE IF s < Len(segs)
    THEN NextChunk(segs, s + 1, Chunk(segs[s + 1], size), size)
    ELSE [pc |-> "self_verify", seg |-> s, chunk |-> EmptyHex, chunks |-> <<>>]

\* chunk_size = max_packet_length - Command.get_size(); chunk_size -= chunk_size % write_size
ChunkSize(mpl, ws) == (mpl - CommandSize) - ((mpl - CommandSize) % ws)

RECURSIVE SumLen(_)
SumLen(segs) == IF segs = <<>> THEN 0 ELSE HexLen(Head(segs)) + SumLen(Tail(segs))

\* flash after self.erase_flash(...) returned: the locals are set and the loop
\* is entered; range() refuses a step of zero
FlashAfterErase ==
    LET size == ChunkSize(max_packet_length, write_size)
        nxt == NextChunk(segments, 0, <<>>, size)
    IN /\ chunk_size' = size
       /\ total_bytes' = SumLen(segments)
       /\ written_bytes' = 0
       /\ IF size = 0
          THEN /\ Raise(ValueError)
               /\ UNCHANGED <<seg, chunk, chunks>>
          ELSE /\ pc' = nxt.pc
               /\ error' = error
               /\ seg' = nxt.seg
               /\ chunk' = nxt.chunk
               /\ chunks' = nxt.chunks
       /\ UNCHANGED <<hexfile, progress_callback, segments>>

(* ----------------------- Bootloader.erase_flash ----------------------- *)
\* erase_flash returns normally: to its caller flash, or to the user
EraseFlashReturn ==
    IF op = "flash" THEN FlashAfterErase
    ELSE /\ pc' = "done"
         /\ error' = NoError
         /\ UNCHANGED flashVars

\* start, *_, end = erase_range if erase_range else self._memory_range;
\* then the first statement that does I/O is chosen by force.
\* rng = <<a, b>> is range(a, b); an empty range is falsy, a range of one
\* element cannot be unpacked into start and end.
EraseFlashEnter(rng, f, v) ==
    LET r == IF rng[2] > rng[1] THEN rng ELSE memory_range
    IN /\ erase_range' = r
       /\ force' = f
       /\ verify' = v
       /\ normal_timeout' = None
       /\ IF r[2] - r[1] < 2
          THEN /\ Raise(ValueError)
               /\ UNCHANGED <<start, end>>
          ELSE /\ start' = r[1]
               /\ end' = r[2] - 1
               /\ pc' = IF f THEN "erase_flash" ELSE "detect_program"
               /\ error' = NoError

\* erase_flash(erase_range, force, verify) called by the user; <<0, 0>> stands
\* for the default None
EraseFlash ==
    /\ Call("erase_flash")
    /\ \E rng \in {<<0, 0>>} \cup {r \in (0..1) \X (0..MaxWordAddr) : r[1] < r[2]},
          f \in BOOLEAN, v \in BOOLEAN :
          EraseFlashEnter(rng, f, v)
    /\ trace' = <<>>
    /\ NoFlashLocals
    /\ UNCHANGED <<interface_timeout, devVars>>

\* if force or self._detect_program(): the probe before the erase
EraseDetect ==
    /\ pc = "detect_program"
    /\ \E response \in Responses(SELF_VERIFY, {0}) :
          LET x == SendAndReceive("_detect_program", Command(SELF_VERIFY, 0, 0, 0), <<>>,
                                  response, -1, 0)
          IN /\ trace' = Append(trace, x)
             /\ CASE detect_program(x) = "True" ->
                       /\ pc' = "erase_flash"
                       /\ error' = error
                       /\ UNCHANGED flashVars
                  [] detect_program(x) = "False" -> EraseFlashReturn
                  [] OTHER ->
                       /\ Raise(x.raised)
                       /\ UNCHANGED flashVars
    /\ UNCHANGED <<op, interface_timeout, devVars, eraseVars, normal_timeout>>

\* _erase_flash(start, end), then the statements of erase_flash up to its next exchange
EraseSend ==
    /\ pc = "erase_flash"
    /\ normal_timeout' = interface_timeout
    /\ \E response \in Responses(ERASE_FLASH, {0}) :
          LET raised_timeout == IF interface_timeout # None
                                THEN interface_timeout * 10 ELSE interface_timeout
              x == [SendAndReceive("_erase_flash",
                        Command(ERASE_FLASH, (end - start) \div erase_size,
                                FLASH_UNLOCK_KEY, start),
                        <<>>, response, -1, 0)
                    EXCEPT !.timeout = raised_timeout]
          IN /\ trace' = Append(trace, x)
             /\ IF x.raised # NoError
                THEN /\ interface_timeout' = raised_timeout
                     /\ Raise(x.raised)
                     /\ UNCHANGED flashVars
                ELSE /\ interface_timeout' = interface_timeout
                     /\ IF verify
                        THEN /\ pc' = "verify_erase"
                             /\ error' = error
                             /\ UNCHANGED flashVars
                        ELSE EraseFlashReturn
    /\ UNCHANGED <<op, devVars, eraseVars>>

\* if verify: if self._detect_program(): raise ...
EraseVerify ==
    /\ pc = "verify_erase"
    /\ \E response \in Responses(SELF_VERIFY, {0}) :
          LET x == SendAndReceive("_detect_program", Command(SELF_VERIFY, 0, 0, 0), <<>>,
                                  response, -1, 0)
          IN /\ trace' = Append(trace, x)
             /\ CASE detect_program(x) = "True" ->
                       /\ Raise(EraseVerificationFailed)
                       /\ UNCHANGED flashVars
                  [] detect_program(x) = "False" -> EraseFlashReturn
                  [] OTHER ->
                       /\ Raise(x.raised)
                       /\ UNCHANGED flashVars
    /\ UNCHANGED <<op, interface_timeout, devVars, eraseVars, normal_timeout>>

\* flash(hexfile, progress_callback) up to its first exchange
Flash ==
    /\ Call("flash")
    /\ \E image \in Images, cb \in BOOLEAN :
          LET hexdata == Slice(image, 2 * memory_range[1], 2 * (memory_range[2] - 1))
              bounds == HexSegments(hexdata)
              segs == [k \in 1..Len(bounds) |-> Slice(hexdata, bounds[k][1], bounds[k][2])]
          IN /\ hexfile' = image
             /\ progress_callback' = cb
             /\ segments' = segs
             /\ IF segs = <<>>
                THEN /\ Raise(EmptyImage)
                     /\ NoEraseLocals
                ELSE EraseFlashEnter(memory_range, FALSE, TRUE)
    /\ seg' = 0
    /\ chunks' = <<>>
    /\ chunk' = EmptyHex
    /\ chunk_size' = 0
    /\ total_bytes' = 0
    /\ written_bytes' = 0
    /\ trace' = <<>>
    /\ UNCHANGED <<interface_timeout, devVars>>

\* padding that adds a whole block to data that is aligned already
WritePaddingWholeBlock(data, align) ==
    [k \in 1..(align - (HexLen(data) % align)) |-> Padding]

\* padding = bytes([data.padding] * ((align - (len(data) % align)) % align))
WritePadding(data, align) ==
    [k \in 1..((align - (HexLen(data) % align)) % align) |-> Padding]

\* self._write_flash(chunk, self._write_size); written_bytes += len(chunk)
FlashWrite ==
    /\ pc = "write_flash"
    /\ \E response \in Responses(WRITE_FLASH, {0}) :
          LET padding == WritePadding(chunk, write_size)
              x == SendAndReceive("_write_flash",
                       Command(WRITE_FLASH, HexLen(chunk) + Len(padding),
                               FLASH_UNLOCK_KEY, minaddr(chunk) \div 2),
                       tobinstr(chunk) \o padding, response,
                       minaddr(chunk), HexLen(chunk))
          IN /\ trace' = Append(trace, x)
             /\ IF x.raised # NoError
                THEN /\ Raise(x.raised)
                     /\ UNCHANGED written_bytes
                ELSE /\ written_bytes' = written_bytes + HexLen(chunk)
                     /\ pc' = "checksum"
                     /\ error' = error
    /\ UNCHANGED <<op, interface_timeout, devVars, eraseVars, normal_timeout,
                   hexfile, progress_callback, segments, seg, chunks, chunk,
                   chunk_size, total_bytes>>

\* the loop body calling the callback before _checksum compares the checksums
ReportThenChecksum(x, passed, callback, written, total) ==
    IF callback THEN <<x, CallbackCall(written, total)>> ELSE <<x>>

\* what the loop body adds to the trace from self._checksum(chunk) on: the
\* CALC_CHECKSUM exchange x, and the callback's call when _checksum returned
\* (passed) and a callback was given
ChecksumThenReport(x, passed, callback, written, total) ==
    IF passed /\ callback THEN <<x, CallbackCall(written, total)>> ELSE <<x>>

\* the loop body with a _checksum that asks the device and compares nothing
FlashChecksumUnchecked ==
    /\ pc = "checksum"
    /\ LET checksum1 == get_local_checksum(chunk)
       IN \E response \in Responses(CALC_CHECKSUM, {checksum1, (checksum1 + 1) % 65536}) :
          LET x == SendAndReceive("_get_remote_checksum",
                       Command(CALC_CHECKSUM, HexLen(chunk), 0, minaddr(chunk) \div 2),
                       <<>>, response, minaddr(chunk), HexLen(chunk))
              nxt == NextChunk(segments, seg, chunks, chunk_size)
          IN /\ trace' = trace \o ChecksumThenReport(x, x.raised = NoError, progress_callback,
                                                     written_bytes, total_bytes)
             /\ IF x.raised # NoError
                THEN /\ Raise(x.raised)
                     /\ UNCHANGED <<seg, chunks, chunk>>
                ELSE /\ pc' = nxt.pc
                     /\ error' = error
                     /\ seg' = nxt.seg
                     /\ chunk' = nxt.chunk
                     /\ chunks' = nxt.chunks
    /\ UNCHANGED <<op, interface_timeout, devVars, eraseVars, normal_timeout,
                   hexfile, progress_callback, segments, chunk_size, total_bytes,
                   written_bytes>>

\* self._checksum(chunk); if progress_callback: progress_callback(...); next chunk
FlashChecksum ==
    /\ pc = "checksum"
    /\ LET checksum1 == get_local_checksum(chunk)
       IN \E response \in Responses(CALC_CHECKSUM, {checksum1, (checksum1 + 1) % 65536}) :
          LET x == SendAndReceive("_get_remote_checksum",
                       Command(CALC_CHECKSUM, HexLen(chunk), 0, minaddr(chunk) \div 2),
                       <<>>, response, minaddr(chunk), HexLen(chunk))
              checksum2 == response.checksum
              nxt == NextChunk(segments, seg, chunks, chunk_size)
              passed == x.raised = NoError /\ checksum1 = checksum2
          IN /\ trace' = trace \o ChecksumThenReport(x, passed, progress_callback,
                                                     written_bytes, total_bytes)
             /\ IF x.raised # NoError
                THEN /\ Raise(x.raised)
                     /\ UNCHANGED <<seg, chunks, chunk>>
                ELSE IF checksum1 # checksum2
                THEN /\ Raise(ChecksumMismatch)
                     /\ UNCHANGED <<seg, chunks, chunk>>
                ELSE /\ pc' = nxt.pc
                     /\ error' = error
                     /\ seg' = nxt.seg
                     /\ chunk' = nxt.chunk
                     /\ chunks' = nxt.chunks
    /\ UNCHANGED <<op, interface_timeout, devVars, eraseVars, normal_timeout,
                   hexfile, progress_callback, segments, chunk_size, total_bytes,
                   written_bytes>>

\* self._self_verify() at the end of flash
FlashSelfVerify ==
    /\ pc = "self_verify"
    /\ \E response \in Responses(SELF_VERIFY, {0}) :
          LET x == SendAndReceive("_self_verify", Command(SELF_VERIFY, 0, 0, 0), <<>>,
                                  response, -1, 0)
          IN /\ trace' = Append(trace, x)
             /\ IF x.raised # NoError
                THEN Raise(x.raised)
                ELSE /\ pc' = "done"
                     /\ error' = NoError
    /\ UNCHANGED <<op, interface_timeout, devVars, eraseVars, normal_timeout,
                   flashVars>>

Next ==
    \/ ReadVersion
    \/ GetMemoryAddressRange
    \/ Reset
    \/ EraseFlash
    \/ EraseDetect
    \/ EraseSend
    \/ EraseVerify
    \/ Flash
    \/ FlashWrite
    \/ FlashChecksum
    \/ FlashSelfVerify
    \/ Return

Spec == Init /\ [][Next]_vars

(* ======================= properties of the engine ===================== *)
\* positions in the trace of the exchanges, and of those sending command c
Exchanges == {i \in 1..Len(trace) : trace[i].kind = "exchange"}
Sent(c) == {i \in Exchanges : trace[i].command = c}
Calls == {i \in 1..Len(trace) : trace[i].kind = "callback"}

\* ceil(a / b) for b > 0
CeilDiv(a, b) == (a + b - 1) \div b

\* C1: for every call of erase that issues the ERASE_FLASH exchange, the
\* transport's read timeout after the exchange equals the value it had before
\* it (normal_timeout), whether the exchange succeeded or failed; the x10
\* timeout is in force only during that exchange.
C1_TimeoutRestored ==
    Sent(ERASE_FLASH) # {} =>
        /\ interface_timeout = normal_timeout
        /\ \A i \in Exchanges :
              trace[i].timeout =
                  IF trace[i].command = ERASE_FLASH /\ normal_timeout # None
                  THEN 10 * normal_timeout ELSE normal_timeout

\* C2: when erase runs over a range [start, end), at most one ERASE_FLASH
\* command is sent, with address = start and
\* data_length = (end - start) / erase_size; it is sent once the program was
\* detected or force was set.
C2_EraseCommand ==
    /\ Cardinality(Sent(ERASE_FLASH)) <= 1
    /\ \A i \in Sent(ERASE_FLASH) :
          /\ trace[i].address = erase_range[1]
          /\ trace[i].data_length = (erase_range[2] - erase_range[1]) \div erase_size
    /\ pc = "verify_erase" => Cardinality(Sent(ERASE_FLASH)) = 1

\* the WRITE_FLASH exchanges for chunks of the segment s
WritesOf(s) == {i \in Sent(WRITE_FLASH) : trace[i].at \in DOMAIN s}

\* C3: in flash(), for every segment of byte length L >= 1 and chunk size
\* C >= 1, the chunks sent by WRITE_FLASH partition the segment: when flash()
\* has returned normally, exactly ceil(L / C) WRITE_FLASH exchanges were made
\* for it, chunk k starts at min_address + k*C, each chunk has at most C bytes
\* and every byte of the segment was transmitted in exactly one chunk.
C3_ChunksPartition ==
    (op = "flash" /\ pc = "done" /\ error = NoError) =>
        \A k \in 1..Len(segments) :
            LET s == segments[k]
                L == HexLen(s)
                W == WritesOf(s)
            IN /\ Cardinality(W) = CeilDiv(L, chunk_size)
               /\ \A j \in 0..(CeilDiv(L, chunk_size) - 1) :
                     \E i \in W : trace[i].at = minaddr(s) + j * chunk_size
               /\ \A i \in W : trace[i].n <= chunk_size
               /\ \A a \in DOMAIN s :
                     Cardinality({i \in W : trace[i].at <= a
                                            /\ a < trace[i].at + trace[i].n}) = 1

\* the bytes of the image flash() treats as in scope
InScope == UNION {DOMAIN segments[k] : k \in 1..Len(segments)}

\* C4: for a device whose program range is [program_start, program_end) in
\* words, the image bytes flash() treats as in scope are exactly those at byte
\* addresses a with 2*program_start <= a < 2*program_end, and no byte outside
\* that interval is written.
C4_ScopeIsProgramRange ==
    (op = "flash" /\ pc # "idle") =>
        /\ InScope = {a \in DOMAIN hexfile :
                         2 * memory_range[1] <= a /\ a < 2 * memory_range[2]}
        /\ \A i \in Sent(WRITE_FLASH) :
              \A a \in trace[i].at..(trace[i].at + trace[i].n - 1) :
                  2 * memory_range[1] <= a /\ a < 2 * memory_range[2]

\* the exchange at i failed: it raised, or _checksum found the checksums to differ
Failed(i) ==
    \/ trace[i].raised # NoError
    \/ /\ trace[i].command = CALC_CHECKSUM
       /\ trace[i].response.checksum #
              get_local_checksum(Slice(hexfile, trace[i].at, trace[i].at + trace[i].n))
FailureOf(i) == IF trace[i].raised # NoError THEN trace[i].raised ELSE ChecksumMismatch

\* the exchange at i is answered with the sent command code and success code c
Answered(i, c) ==
    /\ ~trace[i].response.short
    /\ trace[i].response.command = trace[i].command
    /\ trace[i].response.success = c

\* C5 as stated: within flash(), once any exchange fails, flash() terminates
\* with that failure and writes no further command to the transport.
C5_AnyFailureEndsFlash ==
    op = "flash" =>
        \A i \in Exchanges :
            Failed(i) => /\ i = Len(trace)
                         /\ pc = "done"
                         /\ error = FailureOf(i)

\* a probe of _detect_program that raised VerifyFail: program detection
\* takes it as "no program"
SuppressedProbe(i) ==
    trace[i].caller = "_detect_program" /\ trace[i].raised = VerifyFail

\* C5 (amended): within flash(), once any exchange fails, other than a
\* SELF_VERIFY probe of the erase step's program detection raising VerifyFail,
\* flash() terminates with that failure and the failed exchange is the last
\* thing on the transport: no chunk, checksum, SELF_VERIFY or retry follows.
\* A WRITE_FLASH answered BAD_ADDRESS raises BadAddress.
C5_FailureEndsFlash ==
    op = "flash" =>
        /\ \A i \in Exchanges :
              (Failed(i) /\ ~SuppressedProbe(i)) =>
                  /\ i = Len(trace)
                  /\ pc = "done"
                  /\ error = FailureOf(i)
        /\ \A i \in Sent(WRITE_FLASH) :
              Answered(i, BAD_ADDRESS) => /\ error = BadAddress
                                          /\ i = Len(trace)

\* a WRITE_FLASH was answered BAD_ADDRESS while chunks were left to write
C5_Witness ==
    /\ op = "flash"
    /\ pc = "done"
    /\ error = BadAddress
    /\ Len(trace) \in Sent(WRITE_FLASH)
    /\ Answered(Len(trace), BAD_ADDRESS)
    /\ chunks # <<>>
    /\ \E i \in Exchanges : SuppressedProbe(i)

\* the error kind documented for a failed final self-verify; no statement of
\* the engine raises it
FlashVerificationFailed == "FlashVerificationFailed"

\* the final self-verify exchanges of flash
Finals == {i \in Sent(SELF_VERIFY) : trace[i].caller = "_self_verify"}

\* the number of chunks of all segments
RECURSIVE CountChunks(_, _)
CountChunks(segs, size) ==
    IF segs = <<>> THEN 0
    ELSE Len(Chunk(Head(segs), size)) + CountChunks(Tail(segs), size)

\* one SELF_VERIFY, the last exchange, after every chunk was written and verified
FinalIsLast ==
    /\ Cardinality(Finals) <= 1
    /\ \A i \in Finals :
          /\ i = Len(trace)
          /\ pc = "done"
          /\ \A j \in Sent(WRITE_FLASH) \cup Sent(CALC_CHECKSUM) : j < i /\ ~Failed(j)
          /\ \A count \in {CountChunks(segments, chunk_size)} :
                /\ Cardinality(Sent(WRITE_FLASH)) = count
                /\ Cardinality(Sent(CALC_CHECKSUM)) = count
    /\ (pc = "done" /\ error = NoError) => Finals # {}

\* C6 as stated: flash() sends exactly one SELF_VERIFY as its last exchange,
\* after all WRITE_FLASH and CALC_CHECKSUM exchanges; it returns normally only
\* if that exchange reports SUCCESS and otherwise fails with
\* FlashVerificationFailed.
C6_FailsWithFlashVerificationFailed ==
    op = "flash" =>
        /\ FinalIsLast
        /\ \A i \in Finals :
              IF Answered(i, SUCCESS) THEN error = NoError
              ELSE error = FlashVerificationFailed

\* C6 (amended): flash() sends exactly one SELF_VERIFY as its last exchange,
\* after all WRITE_FLASH and CALC_CHECKSUM exchanges; it returns normally only
\* if that exchange reports SUCCESS and otherwise fails with what that
\* exchange raised (VerifyFail when the device answers VERIFY_FAIL).
C6_FinalSelfVerifyDecides ==
    op = "flash" =>
        /\ FinalIsLast
        /\ \A i \in Finals :
              /\ error = trace[i].raised
              /\ error = NoError <=> Answered(i, SUCCESS)
              /\ Answered(i, VERIFY_FAIL) => error = VerifyFail

\* flash wrote chunks of two segments and its final SELF_VERIFY was answered VERIFY_FAIL
C6_Witness ==
    /\ op = "flash"
    /\ pc = "done"
    /\ error = VerifyFail
    /\ Finals # {}
    /\ Len(segments) >= 2
    /\ \A k \in 1..Len(segments) : WritesOf(segments[k]) # {}

\* the bytes of the chunks written before position j of the trace
RECURSIVE WrittenBefore(_)
WrittenBefore(j) ==
    IF j <= 1 THEN 0
    ELSE WrittenBefore(j - 1)
         + (IF (j - 1) \in Sent(WRITE_FLASH) THEN trace[j - 1].n ELSE 0)

\* C7 as stated: for each chunk the progress callback is invoked with
\* (written, total) after the chunk's WRITE_FLASH exchange and before its
\* CALC_CHECKSUM exchange, so a chunk whose checksum fails has been reported.
C7_ReportBeforeChecksum ==
    (op = "flash" /\ progress_callback) =>
        /\ \A i \in Sent(WRITE_FLASH) :
              (~Failed(i) /\ i < Len(trace)) =>
                  /\ trace[i + 1].kind = "callback"
                  /\ trace[i + 1].written = WrittenBefore(i + 1)
                  /\ trace[i + 1].total = total_bytes
        /\ \A i \in Sent(CALC_CHECKSUM) :
              /\ trace[i - 1].kind = "callback"
              /\ trace[i - 1].written = WrittenBefore(i)

\* C7 (amended): for each chunk the progress callback (when provided) is
\* invoked with (written, total) right after that chunk's CALC_CHECKSUM
\* exchange has succeeded with equal checksums, which follows the chunk's
\* WRITE_FLASH exchange; a chunk whose checksum exchange fails is not
\* reported; without a callback nothing is reported.
C7_ReportAfterChecksum ==
    op = "flash" =>
        /\ \A j \in Calls :
              /\ progress_callback
              /\ j >= 3
              /\ (j - 1) \in Sent(CALC_CHECKSUM)
              /\ ~Failed(j - 1)
              /\ (j - 2) \in Sent(WRITE_FLASH)
              /\ trace[j - 2].at = trace[j - 1].at
              /\ trace[j - 2].n = trace[j - 1].n
              /\ trace[j].written = WrittenBefore(j)
              /\ trace[j].total = total_bytes
        /\ \A i \in Sent(CALC_CHECKSUM) :
              IF Failed(i) THEN i = Len(trace)
              ELSE progress_callback => (i < Len(trace) /\ (i + 1) \in Calls)

\* a chunk was reported, and the checksum of a later chunk did not match
C7_Witness ==
    /\ op = "flash"
    /\ pc = "done"
    /\ error = ChecksumMismatch
    /\ Calls # {}
    /\ Len(trace) \in Sent(CALC_CHECKSUM)
    /\ trace[Len(trace)].raised = NoError

\* C8: in flash(), every WRITE_FLASH exchange of a chunk is directly followed
\* by one CALC_CHECKSUM exchange for that chunk (unless the write failed, which
\* ends flash), every CALC_CHECKSUM directly follows the WRITE_FLASH of its
\* chunk, and the chunks are written in strictly ascending address order,
\* across segments and within a segment.
C8_WriteThenChecksumAscending ==
    op = "flash" =>
        /\ \A i \in Sent(WRITE_FLASH) :
              IF i = Len(trace)
              THEN pc = "checksum" \/ (pc = "done" /\ Failed(i))
              ELSE /\ ~Failed(i)
                   /\ (i + 1) \in Sent(CALC_CHECKSUM)
                   /\ trace[i + 1].at = trace[i].at
                   /\ trace[i + 1].n = trace[i].n
                   /\ trace[i + 1].address = trace[i].address
        /\ \A j \in Sent(CALC_CHECKSUM) : (j - 1) \in Sent(WRITE_FLASH)
        /\ \A i, j \in Sent(WRITE_FLASH) :
              i < j => trace[i].at + trace[i].n <= trace[j].at

\* flash returned normally after writing two chunks of one segment and a chunk of another
C8_Witness ==
    /\ op = "flash"
    /\ pc = "done"
    /\ error = NoError
    /\ \E k \in 1..Len(segments) : Cardinality(WritesOf(segments[k])) >= 2
    /\ Cardinality({k \in 1..Len(segments) : WritesOf(segments[k]) # {}}) >= 2

\* C9: an exchange whose response carries the sent command code and a success
\* value that is neither SUCCESS nor one of the four device-reported codes
\* (UNDEFINED included) fails with ProtocolMismatch, which is none of the four
\* device-reported error kinds.
C9_UnknownCodeIsProtocolMismatch ==
    /\ ProtocolMismatch \notin DeviceErrors
    /\ \A i \in Exchanges :
          (/\ ~trace[i].response.short
           /\ trace[i].response.command = trace[i].command
           /\ RESPONSE_TYPE_MAP[trace[i].command] # "Version"
           /\ trace[i].response.success \notin
                  {SUCCESS, UNSUPPORTED_COMMAND, BAD_ADDRESS, BAD_LENGTH, VERIFY_FAIL})
          => trace[i].raised = ProtocolMismatch

\* C10: for every command sent and every response whose echoed command byte
\* differs from the sent command's code, whatever byte is echoed and whatever
\* the success field holds, the exchange fails with ProtocolMismatch and never
\* with a device-reported error kind.
C10_WrongEchoIsProtocolMismatch ==
    \A i \in Exchanges :
        (~trace[i].response.short /\ trace[i].response.command # trace[i].command)
        => /\ trace[i].raised = ProtocolMismatch
           /\ trace[i].raised \notin DeviceErrors

\* the response type of the exchange at i has a success field
HasSuccess(i) == RESPONSE_TYPE_MAP[trace[i].command] # "Version"

\* C11: an exchange returns a response to its caller only if the echoed
\* command code equals the sent command's code and, for every response type
\* other than Version, success = SUCCESS; an exchange answered with
\* success = UNDEFINED raises, it is the last thing the operation does and the
\* operation (detect_program, erase, write_flash, checksum, reset) ends with
\* what was raised, never with success.
C11_OnlyGoodResponsesReturn ==
    /\ \A i \in Exchanges :
          trace[i].raised = NoError =>
              /\ ~trace[i].response.short
              /\ trace[i].response.command = trace[i].command
              /\ HasSuccess(i) => trace[i].response.success = SUCCESS
    /\ \A i \in Exchanges :
          (HasSuccess(i) /\ Answered(i, UNDEFINED)) =>
              /\ trace[i].raised # NoError
              /\ i = Len(trace)
              /\ pc \in {"done", "failed"}
              /\ error = trace[i].raised

\* the checksum exchange of a written chunk was answered UNDEFINED with the
\* checksum the host computed, and flash failed
C11_Witness ==
    /\ op = "flash"
    /\ pc = "done"
    /\ error # NoError
    /\ Len(trace) \in Sent(CALC_CHECKSUM)
    /\ Answered(Len(trace), UNDEFINED)
    /\ trace[Len(trace)].response.checksum = get_local_checksum(chunk)

\* the four codes a device reports a failure with
DeviceCodes == {UNSUPPORTED_COMMAND, BAD_ADDRESS, BAD_LENGTH, VERIFY_FAIL}

\* C12: for every command answered with the correct echoed command code, a
\* success value of 0xFF, 0xFE, 0xFD or 0xFC makes the exchange fail with
\* UnsupportedCommand, BadAddress, BadLength or VerifyFail respectively; two
\* different device codes never yield the same error kind.
C12_DeviceCodesMapOneToOne ==
    /\ \A i \in Exchanges :
          (/\ HasSuccess(i)
           /\ ~trace[i].response.short
           /\ trace[i].response.command = trace[i].command
           /\ trace[i].response.success \in DeviceCodes)
          => trace[i].raised =
                 CASE trace[i].response.success = 255 -> UnsupportedCommand
                   [] trace[i].response.success = 254 -> BadAddress
                   [] trace[i].response.success = 253 -> BadLength
                   [] trace[i].response.success = 252 -> VerifyFail
    /\ Cardinality({UnsupportedCommand, BadAddress, BadLength, VerifyFail}) = 4
    /\ \A c, d \in DeviceCodes :
          c # d => BOOTLOADER_EXCEPTIONS[c] # BOOTLOADER_EXCEPTIONS[d]

\* in one flash the erase step's probe was answered VERIFY_FAIL and a later
\* WRITE_FLASH was answered BAD_LENGTH
C12_Witness ==
    /\ op = "flash"
    /\ pc = "done"
    /\ error = BadLength
    /\ Len(trace) \in Sent(WRITE_FLASH)
    /\ Answered(Len(trace), BAD_LENGTH)
    /\ \E i \in Sent(SELF_VERIFY) : Answered(i, VERIFY_FAIL) /\ trace[i].raised = VerifyFail

\* the ERASE_FLASH exchanges that succeeded
Erased == {i \in Sent(ERASE_FLASH) : trace[i].raised = NoError}

\* C13: erase with verify = true, after its ERASE_FLASH exchange succeeded,
\* runs detect_program again (one SELF_VERIFY exchange, next on the transport)
\* and fails with EraseVerificationFailed if and only if that probe detects a
\* program; when the probe raises VerifyFail erase returns normally; with
\* verify = false nothing follows the ERASE_FLASH exchange and erase returns
\* normally.
C13_EraseVerification ==
    /\ error = EraseVerificationFailed => Erased # {}
    /\ \A i \in Erased :
          IF verify
          THEN \/ i = Len(trace) /\ pc = "verify_erase"
               \/ /\ i < Len(trace)
                  /\ (i + 1) \in Sent(SELF_VERIFY)
                  /\ trace[i + 1].caller = "_detect_program"
                  /\ (error = EraseVerificationFailed) <=> (trace[i + 1].raised = NoError)
                  /\ trace[i + 1].raised = NoError => (pc = "done" /\ i + 1 = Len(trace))
                  /\ (trace[i + 1].raised = VerifyFail /\ op = "erase_flash") =>
                         (pc = "done" /\ error = NoError /\ i + 1 = Len(trace))
          ELSE /\ op = "erase_flash"
               /\ i = Len(trace)
               /\ pc = "done"
               /\ error = NoError

\* erase_flash found a program, erased, and the probe after the erase still
\* found the program
C13_Witness ==
    /\ op = "erase_flash"
    /\ pc = "done"
    /\ ~force
    /\ verify
    /\ error = EraseVerificationFailed
    /\ Len(trace) = 3
    /\ 2 \in Erased
    /\ Answered(3, SUCCESS)

\* the chunk the exchange at i is about: the bytes of the segment that holds
\* byte address trace[i].at, from there up to chunk_size bytes on
ChunkAt(i) ==
    LET s == CHOOSE s \in {segments[k] : k \in 1..Len(segments)} : trace[i].at \in DOMAIN s
    IN Slice(s, trace[i].at, trace[i].at + chunk_size)

\* C14: checksum(chunk) sends one CALC_CHECKSUM command, without payload, with
\* address = the chunk's least byte address halved and data_length = the
\* chunk's unpadded byte length, right after the chunk's WRITE_FLASH; when the
\* exchange returns a response, flash fails there with ChecksumMismatch if and
\* only if the checksum computed locally over the chunk differs from the
\* response's checksum field; hence flash() returns normally only if every
\* written chunk's local and onboard checksums were equal.
C14_ChecksumDecides ==
    op = "flash" =>
        /\ \A i \in Sent(CALC_CHECKSUM) : \A c \in {ChunkAt(i)} :
              /\ trace[i].address = minaddr(c) \div 2
              /\ trace[i].data_length = HexLen(c)
              /\ trace[i].unlock_sequence = 0
              /\ trace[i].data = <<>>
              /\ (i - 1) \in Sent(WRITE_FLASH)
              /\ trace[i - 1].at = trace[i].at
              /\ trace[i].raised = NoError =>
                    ((pc = "done" /\ error = ChecksumMismatch /\ i = Len(trace))
                     <=> trace[i].response.checksum # get_local_checksum(c))
              /\ trace[i].raised # NoError => error = trace[i].raised
        /\ error = ChecksumMismatch =>
              /\ trace # <<>>
              /\ Len(trace) \in Sent(CALC_CHECKSUM)
              /\ trace[Len(trace)].raised = NoError
        /\ (pc = "done" /\ error = NoError) =>
              \A i \in Sent(WRITE_FLASH) :
                  /\ i < Len(trace)
                  /\ (i + 1) \in Sent(CALC_CHECKSUM)
                  /\ trace[i + 1].response.checksum = get_local_checksum(ChunkAt(i))

\* flash returned normally after the checksum of a chunk of two bytes or more
\* that starts at an odd byte address
C14_Witness ==
    /\ op = "flash"
    /\ pc = "done"
    /\ error = NoError
    /\ \E i \in Sent(CALC_CHECKSUM) :
          /\ trace[i].at % 2 = 1
          /\ trace[i].data_length >= 2
          /\ trace[i].response.checksum = get_local_checksum(ChunkAt(i))

\* the bytes of the image inside the device's address range
InRange ==
    {a \in DOMAIN hexfile : 2 * memory_range[1] <= a /\ a < 2 * memory_range[2]}

\* C15: flash() on an image with no byte inside the device's address range
\* fails with EmptyImage before any exchange: nothing is written to the
\* transport (no SELF_VERIFY, ERASE_FLASH, WRITE_FLASH or CALC_CHECKSUM) and
\* the transport's timeout is the one it was constructed with.
C15_EmptyImageBeforeAnyExchange ==
    (op = "flash" /\ InRange = {}) =>
        /\ pc = "done"
        /\ error = EmptyImage
        /\ trace = <<>>
        /\ interface_timeout \in Timeouts
        /\ normal_timeout = None

\* flash was given an image whose bytes all lie outside the device's range
C15_Witness ==
    /\ op = "flash"
    /\ pc = "done"
    /\ error = EmptyImage
    /\ hexfile # EmptyHex
    /\ InRange = {}
    /\ interface_timeout = MaxTimeout

\* every answer the device gave to a SELF_VERIFY of this operation says that
\* no program is present
NoProgramDetected == \A i \in Sent(SELF_VERIFY) : trace[i].raised = VerifyFail

\* C16: erase with force = false on a device where detect_program() is false
\* issues zero ERASE_FLASH exchanges, performs exactly one SELF_VERIFY probe,
\* leaves the transport timeout unchanged and returns normally; with
\* force = true the ERASE_FLASH is sent without any preceding SELF_VERIFY
\* probe.
C16_SkipOrForce ==
    (op = "erase_flash" /\ pc = "done") =>
        /\ (~force /\ NoProgramDetected) =>
              /\ Sent(ERASE_FLASH) = {}
              /\ Cardinality(Sent(SELF_VERIFY)) = 1
              /\ interface_timeout \in Timeouts
              /\ error = NoError
        /\ force =>
              /\ trace # <<>>
              /\ 1 \in Sent(ERASE_FLASH)

\* the same for the ranges that hold two addresses or more
C16_SkipOrForceTwoOrMore ==
    (erase_range[2] - erase_range[1] >= 2) => C16_SkipOrForce

\* C17: for every command the engine writes to the transport in any sequence
\* of operations, unlock_sequence = 0x00AA0055 if and only if the command is
\* ERASE_FLASH or WRITE_FLASH; READ_VERSION, GET_MEMORY_ADDRESS_RANGE,
\* SELF_VERIFY, CALC_CHECKSUM and RESET_DEVICE are sent with
\* unlock_sequence = 0.
C17_UnlockKeyOnEraseAndWriteOnly ==
    \A i \in Exchanges :
        /\ (trace[i].unlock_sequence = 11141205)
               <=> (trace[i].command \in {ERASE_FLASH, WRITE_FLASH})
        /\ trace[i].command \in {READ_VERSION, GET_MEMORY_ADDRESS_RANGE, SELF_VERIFY,
                                 CALC_CHECKSUM, RESET_DEVICE}
               => trace[i].unlock_sequence = 0

\* one flash sent SELF_VERIFY, ERASE_FLASH, WRITE_FLASH and CALC_CHECKSUM
C17_Witness ==
    /\ op = "flash"
    /\ Sent(SELF_VERIFY) # {}
    /\ Sent(ERASE_FLASH) # {}
    /\ Sent(WRITE_FLASH) # {}
    /\ Sent(CALC_CHECKSUM) # {}

\* the SELF_VERIFY exchanges made by _detect_program
Probes == {i \in Exchanges : trace[i].caller = "_detect_program"}

\* C18: detect_program() performs exactly one SELF_VERIFY exchange; when it
\* succeeds a program is detected (the erase step goes on to ERASE_FLASH), when
\* it fails with VerifyFail no program is detected (the erase step is skipped
\* and erase returns normally); every other failure (UnsupportedCommand,
\* BadAddress, BadLength, echoed-command mismatch, undecodable response) ends
\* the operation with that failure, so erase never skips the erase step
\* because of a communication failure.
C18_DetectProgram ==
    \A i \in Probes :
        /\ trace[i].command = SELF_VERIFY
        /\ (i + 1) \notin Probes
        /\ (trace[i].raised = NoError /\ Sent(ERASE_FLASH) = {}) =>
              (i = Len(trace) /\ pc = "erase_flash")
        /\ (trace[i].raised = NoError /\ i < Len(trace)) =>
              (i + 1) \in Sent(ERASE_FLASH)
        /\ (trace[i].raised = VerifyFail /\ i = 1) =>
              /\ Sent(ERASE_FLASH) = {}
              /\ op = "erase_flash" => (pc = "done" /\ error = NoError /\ Len(trace) = 1)
              /\ op = "flash" => (pc # "erase_flash" /\ (Len(trace) = 1 => error # VerifyFail))
        /\ trace[i].raised \notin {NoError, VerifyFail} =>
              /\ i = Len(trace)
              /\ pc = "done"
              /\ error = trace[i].raised

\* the probe before the erase was answered with the code of another command:
\* erase_flash failed with the mismatch and sent no ERASE_FLASH
C18_Witness ==
    /\ op = "erase_flash"
    /\ pc = "done"
    /\ ~force
    /\ Probes = {1}
    /\ Len(trace) = 1
    /\ trace[1].raised = ProtocolMismatch
    /\ error = ProtocolMismatch

\* what _send_and_receive does on the transport for the exchange x:
\* interface.write(bytes(command) + data), then one interface.read(get_size())
TransportOf(x) ==
    <<[io |-> "write", command |-> x.command, size |-> CommandSize + Len(x.data)],
      [io |-> "read", command |-> x.command, size |-> x.read_size]>>

\* the writes and reads on the transport of the exchanges of t, in order
RECURSIVE TransportLog(_)
TransportLog(t) ==
    IF t = <<>> THEN <<>>
    ELSE (IF Head(t).kind = "exchange" THEN TransportOf(Head(t)) ELSE <<>>)
         \o TransportLog(Tail(t))

\* the fixed size of the response the protocol assigns to command c
FixedSize(c) ==
    CASE c = READ_VERSION -> 37
      [] c = CALC_CHECKSUM -> 14
      [] c = GET_MEMORY_ADDRESS_RANGE -> 20
      [] OTHER -> 12

\* C19: across the operations of the engine (bring-up, erase, flash, reset),
\* transport writes and reads strictly alternate, starting with a write: each
\* command write is followed by exactly one read request, for the command just
\* written and of exactly the fixed size of its response type (Version 37,
\* Response 12, Checksum 14, MemoryRange 20 bytes), before the next command is
\* written; no command is written while a response is outstanding.
C19_WriteReadAlternate ==
    \A log \in {TransportLog(trace)} :
       /\ Len(log) = 2 * Cardinality(Exchanges)
       /\ \A k \in 1..Len(log) :
             IF k % 2 = 1
             THEN /\ log[k].io = "write"
                  /\ log[k].size >= 11
             ELSE /\ log[k].io = "read"
                  /\ log[k].command = log[k - 1].command
                  /\ log[k].size = FixedSize(log[k].command)

\* a flash whose transport saw reads of 12 bytes and a read of 14 bytes
C19_Witness ==
    /\ op = "flash"
    /\ Len(TransportLog(trace)) >= 8
    /\ \E k \in 1..Len(TransportLog(trace)) :
          TransportLog(trace)[k].io = "read" /\ TransportLog(trace)[k].size = 14
    /\ \E k \in 1..Len(TransportLog(trace)) :
          TransportLog(trace)[k].io = "read" /\ TransportLog(trace)[k].size = 12

\* C20: for every write_size >= 1 and max_packet_length >= 11 + write_size,
\* every WRITE_FLASH command sent by flash() has data_length equal to the
\* length of the payload that follows the header, data_length is a multiple
\* of write_size, the payload is the chunk's bytes followed by fewer than
\* write_size bytes of the pad value, the address field is the chunk's least
\* byte address halved, and header (11 bytes) plus payload never exceeds
\* max_packet_length.
C20_WriteFlashPacket ==
    (op = "flash" /\ write_size >= 1 /\ max_packet_length >= 11 + write_size) =>
        \A i \in Sent(WRITE_FLASH) :
          \A c \in {ChunkAt(i)} :
            LET pad == trace[i].data_length - HexLen(c)
            IN /\ trace[i].data_length = Len(trace[i].data)
               /\ trace[i].data_length % write_size = 0
               /\ 0 <= pad
               /\ pad < write_size
               /\ \A k \in 1..Len(trace[i].data) :
                     trace[i].data[k] =
                         IF k <= HexLen(c) THEN hexfile[trace[i].at + k - 1] ELSE 255
               /\ trace[i].address = minaddr(c) \div 2
               /\ trace[i].at = minaddr(c)
               /\ 11 + Len(trace[i].data) <= max_packet_length

\* a chunk shorter than the write block was sent with padding
C20_Witness ==
    /\ op = "flash"
    /\ write_size > 1
    /\ max_packet_length >= 11 + write_size
    /\ \E i \in Sent(WRITE_FLASH) :
          /\ trace[i].data_length > HexLen(ChunkAt(i))
          /\ trace[i].raised = NoError

\* C21: whenever flash() completes successfully with a progress callback, the
\* callback was invoked once per written chunk with strictly increasing
\* written values that never exceed total, and its last invocation has
\* written = total, where total is the sum of the byte lengths of all
\* in-scope segments.
C21_ProgressReachesTotal ==
    (op = "flash" /\ pc = "done" /\ error = NoError /\ progress_callback) =>
        /\ Cardinality(Calls) = Cardinality(Sent(WRITE_FLASH))
        /\ \A i, j \in Calls : i < j => trace[i].written < trace[j].written
        /\ \A j \in Calls :
              /\ trace[j].written <= trace[j].total
              /\ trace[j].total = SumLen(segments)
        /\ \A j \in Calls :
              (\A i \in Calls : i <= j) => trace[j].written = trace[j].total

\* the same but for the last clauses: the calls are one per written chunk,
\* strictly increasing and never beyond total
C21_ProgressMonotone ==
    (op = "flash" /\ pc = "done" /\ error = NoError /\ progress_callback) =>
        /\ Cardinality(Calls) = Cardinality(Sent(WRITE_FLASH))
        /\ \A i, j \in Calls : i < j => trace[i].written < trace[j].written
        /\ \A j \in Calls :
              /\ trace[j].written <= trace[j].total
              /\ trace[j].total = SumLen(segments)
====
